---- MODULE Spec2Model ----
(***************************************************************************)
(* A model of the AnimateHeight component of vue-animate-height            *)
(* (src/packages/vue-animate-height/src/animate-height.ts).                *)
(*                                                                         *)
(* The state is the closure of setup(): the parsed collapsed height, the   *)
(* current and previous animation state, the timer and animation-frame     *)
(* handles, and the content element's display style.  The browser's timer  *)
(* and animation-frame queues are sets of pending callbacks; the host      *)
(* framework calls onMounted, onUpdated and onBeforeUnmount.               *)
(***************************************************************************)
EXTENDS Integers, Sequences, FiniteSets, TLC

(***************************************************************************)
(* Bounds of the model.                                                    *)
(***************************************************************************)
\* the sequencer is started at most MaxCycles times per instance
MaxCycles == 2
\* the isExpanded prop changes value at most MaxChanges times per instance
MaxChanges == 2
\* measured content heights are 0..MaxContentHeight
MaxContentHeight == 1
\* a non-default delay prop
MaxDelay == 1

\* program constants: the defaults of the delay and duration props
DefaultDelay == 0
DefaultDuration == 250

(***************************************************************************)
(* JavaScript values.  A value is a number or a string; a string is the    *)
(* sequence of its characters, so that the parsing predicates work on the  *)
(* text and not on a tag.                                                  *)
(***************************************************************************)
JsNum(n) == [t |-> "number", n |-> n, s |-> <<>>]
JsStr(s) == [t |-> "string", n |-> 0, s |-> s]

AUTO == JsStr(<<"a", "u", "t", "o">>)
ZERO_PERCENT == JsStr(<<"0", "%">>)

Digits == {"0", "1", "2", "3", "4", "5", "6", "7", "8", "9"}

DigitValue(c) ==
    CASE c = "0" -> 0 [] c = "1" -> 1 [] c = "2" -> 2 [] c = "3" -> 3
      [] c = "4" -> 4 [] c = "5" -> 5 [] c = "6" -> 6 [] c = "7" -> 7
      [] c = "8" -> 8 [] c = "9" -> 9

\* the UTF-16 code unit of a character, for the characters the model uses
CharCode(c) ==
    CASE c = "%" -> 37 [] c = "-" -> 45
      [] c \in Digits -> 48 + DigitValue(c)
      [] c = "a" -> 97 [] c = "b" -> 98 [] c = "c" -> 99
      [] c = "o" -> 111 [] c = "t" -> 116 [] c = "u" -> 117

RECURSIVE DecimalValue(_)
DecimalValue(s) ==
    IF s = <<>> THEN 0
    ELSE 10 * DecimalValue(SubSeq(s, 1, Len(s) - 1)) + DigitValue(s[Len(s)])

AllDigits(s) == Len(s) >= 1 /\ \A i \in 1..Len(s) : s[i] \in Digits

\* a string that Number() converts to a finite number and parseFloat() reads
\* whole: an optional sign and decimal digits (the model's alphabet has no
\* blanks, dots or exponents)
IsNumericString(s) ==
    \/ AllDigits(s)
    \/ Len(s) >= 2 /\ s[1] = "-" /\ AllDigits(Tail(s))

\* Number(v) for a value isNumber accepts
ToNumber(v) ==
    IF v.t = "number" THEN v.n
    ELSE IF v.s[1] = "-" THEN 0 - DecimalValue(Tail(v.s))
    ELSE DecimalValue(v.s)

\* utils/validation: isNumber(n) == !isNaN(parseFloat(n)) && isFinite(n)
isNumber(v) == v.t = "number" \/ IsNumericString(v.s)

\* utils/validation: a string whose only "%" is its last character and whose
\* text before it is a number
isPercentage(v) ==
    /\ v.t = "string"
    /\ Len(v.s) >= 1
    /\ v.s[Len(v.s)] = "%"
    /\ \A i \in 1..(Len(v.s) - 1) : v.s[i] # "%"
    /\ isNumber(JsStr(SubSeq(v.s, 1, Len(v.s) - 1)))

Max(a, b) == IF a >= b THEN a ELSE b

\* a < b on strings: by code units, a proper prefix being smaller
RECURSIVE StrLess(_, _)
StrLess(a, b) ==
    IF b = <<>> THEN FALSE
    ELSE IF a = <<>> THEN TRUE
    ELSE IF CharCode(a[1]) # CharCode(b[1]) THEN CharCode(a[1]) < CharCode(b[1])
    ELSE StrLess(Tail(a), Tail(b))

\* the relational operator a < b of JavaScript: two strings compare as text,
\* anything else as numbers, and a string that is no number is NaN, which
\* makes every comparison false
JsLess(a, b) ==
    IF a.t = "string" /\ b.t = "string" THEN StrLess(a.s, b.s)
    ELSE /\ isNumber(a)
         /\ isNumber(b)
         /\ ToNumber(a) < ToNumber(b)

JsGreater(a, b) == JsLess(b, a)

(***************************************************************************)
(* The props.                                                              *)
(***************************************************************************)
\* props.collapsedHeight.validator
validator(value) ==
    \/ value.t = "number" /\ value.n >= 0
    \/ isPercentage(value)
    \/ value = AUTO

\* the values of the collapsedHeight prop the model mounts the component with
CollapsedHeights ==
    { JsNum(0), JsNum(2), JsNum(-1),
      AUTO, ZERO_PERCENT, JsStr(<<"5", "%">>),
      JsStr(<<"a", "b", "c">>), JsStr(<<"3">>) }

\* the <<delay, duration>> props the model uses
Timings ==
    { <<DefaultDelay, 0>>, <<DefaultDelay, DefaultDuration>>,
      <<MaxDelay, DefaultDuration>> }
ContentHeights == 0..MaxContentHeight

(***************************************************************************)
(* Class names and class sets.  A class set is the object the render       *)
(* function binds to `class`: a mapping from class names to booleans.      *)
(***************************************************************************)
ClassKeys ==
    { "animating", "animatingUp", "animatingDown", "animatingToHeightZero",
      "animatingToHeightAuto", "animatingToHeightSpecific", "static",
      "staticHeightZero", "staticHeightAuto", "staticHeightSpecific" }

ANIMATION_STATE_CLASSES ==
    [ animating |-> "vah-animating",
      animatingUp |-> "vah-animating--up",
      animatingDown |-> "vah-animating--down",
      animatingToHeightZero |-> "vah-animating--to-height-zero",
      animatingToHeightAuto |-> "vah-animating--to-height-auto",
      animatingToHeightSpecific |-> "vah-animating--to-height-specific",
      static |-> "vah-static",
      staticHeightZero |-> "vah-static--height-zero",
      staticHeightAuto |-> "vah-static--height-auto",
      staticHeightSpecific |-> "vah-static--height-specific" ]

\* the values of the animationStateClasses prop the model uses: the default
\* and a partial override
ClassOverrides ==
    { ANIMATION_STATE_CLASSES,
      [ animatingDown |-> "my-down", staticHeightZero |-> "my-closed" ] }

\* { ...ANIMATION_STATE_CLASSES, ...props.animationStateClasses }
animationStateClasses(override) ==
    [ k \in ClassKeys |->
        IF k \in DOMAIN override THEN override[k] ELSE ANIMATION_STATE_CLASSES[k] ]

\* an object literal with computed keys: a later entry of the same key wins
ObjectOf(entries) ==
    [ name \in { entries[i][1] : i \in DOMAIN entries } |->
        LET last == CHOOSE i \in DOMAIN entries :
                        /\ entries[i][1] = name
                        /\ \A j \in DOMAIN entries : entries[j][1] = name => j <= i
        IN entries[last][2] ]

getStaticStateClasses(names, h) ==
    ObjectOf(<< <<names["static"], TRUE>>,
                <<names["staticHeightZero"], h = JsNum(0)>>,
                <<names["staticHeightSpecific"], h.t = "number" /\ h.n > 0>>,
                <<names["staticHeightAuto"], h = AUTO>> >>)

(***************************************************************************)
(* setup(): parsing the collapsed height.                                  *)
(***************************************************************************)
\* the value parseHeight returns
parseHeightKeepsZeroPercent(value) ==
    IF isNumber(value) THEN JsNum(Max(0, ToNumber(value)))
    ELSE IF isPercentage(value) THEN value
    ELSE AUTO

parseHeight(value) ==
    IF isNumber(value) THEN JsNum(Max(0, ToNumber(value)))
    ELSE IF isPercentage(value)
         THEN (IF value = ZERO_PERCENT THEN JsNum(0) ELSE value)
    ELSE AUTO

\* whether parseHeight assigns the closure variable `overflow`
parseHeightAssignsOverflow(value) == isNumber(value) \/ isPercentage(value)

\* parseHeight is called on line 123, before `let overflow` on line 125 is
\* initialised.  Where `let` is kept the assignment in parseHeight throws a
\* ReferenceError and setup() never returns; where it is compiled to `var`
\* the assignment is overwritten by line 125.
setupThrows(value, letIsKept) == letIsKept /\ parseHeightAssignsOverflow(value)

\* the closure variable `overflow` when setup() reaches useState(): whatever
\* parseHeight assigned on line 123, line 125 then assigns 'visible'
setupOverflow(value) ==
    LET afterParse == IF parseHeightAssignsOverflow(value) THEN "hidden" ELSE "unset"
        afterLet == "visible"
    IN afterLet

getTimings(p, prefersReducedMotion) ==
    IF prefersReducedMotion THEN [delay |-> 0, duration |-> 0]
    ELSE [delay |-> p.delay, duration |-> p.duration]

\* useState(): the state ref as it is created
initialState(names, h, o) ==
    [ animationStateClasses |-> getStaticStateClasses(names, h),
      height |-> h,
      overflow |-> o,
      shouldUseTransitions |-> FALSE ]

showContent(h, collapsed, display) ==
    IF h = collapsed THEN "" ELSE display

hideContent(newHeight, display) ==
    IF newHeight = JsNum(0) THEN "none" ELSE display

(***************************************************************************)
(* onUpdated(): the height computations of one run of the sequencer.       *)
(***************************************************************************)
\* lines 266-288: the height to set now, and the height and overflow to set
\* when the animation is complete
targetHeight(h, contentHeight) ==
    IF isNumber(h)
    THEN LET n == JsNum(Max(0, ToNumber(h)))
         IN [newHeight |-> n, height |-> n, overflow |-> "hidden"]
    ELSE IF isPercentage(h)
    THEN LET n == IF h = ZERO_PERCENT THEN JsNum(0) ELSE h
         IN [newHeight |-> n, height |-> n, overflow |-> "hidden"]
    ELSE [newHeight |-> JsNum(contentHeight), height |-> AUTO, overflow |-> "null"]

\* lines 290-297: when the previous height was 'auto' the height to set now
\* is the content height, and the computed height is the one to animate to
fromAutoHeight(prevHeight, r, contentHeight) ==
    IF prevHeight = AUTO
    THEN [r EXCEPT !.height = r.newHeight, !.newHeight = JsNum(contentHeight)]
    ELSE r

\* lines 299-314
animatingClasses(names, prevHeight, h, timeoutHeight) ==
    ObjectOf(<< <<names["animating"], TRUE>>,
                <<names["animatingUp"], prevHeight = AUTO \/ JsLess(h, prevHeight)>>,
                <<names["animatingDown"], h = AUTO \/ JsGreater(h, prevHeight)>>,
                <<names["animatingToHeightZero"], timeoutHeight = JsNum(0)>>,
                <<names["animatingToHeightAuto"], timeoutHeight = AUTO>>,
                <<names["animatingToHeightSpecific"],
                  JsGreater(timeoutHeight, JsNum(0))>> >>)

\* lines 264-319 together
sequencer(names, prevHeight, h, contentHeight) ==
    LET r == fromAutoHeight(prevHeight, targetHeight(h, contentHeight), contentHeight)
    IN [ newHeight |-> r.newHeight,
         timeoutState |-> [height |-> r.height, overflow |-> r.overflow],
         isCurrentHeightAuto |-> prevHeight = AUTO,
         updatedAnimationStateClasses |->
             animatingClasses(names, prevHeight, h, r.height),
         timeoutAnimationStateClasses |-> getStaticStateClasses(names, r.height) ]

\* line 264: the delay of the completion timer
totalDuration(p) == p.duration + p.delay

\* lines 322-329: the state set at the start of a run
startingStateAlwaysTransitions(c) ==
    [ animationStateClasses |-> c.updatedAnimationStateClasses,
      height |-> c.newHeight,
      overflow |-> "hidden",
      shouldUseTransitions |-> TRUE ]

startingState(c) ==
    [ animationStateClasses |-> c.updatedAnimationStateClasses,
      height |-> c.newHeight,
      overflow |-> "hidden",
      shouldUseTransitions |-> ~c.isCurrentHeightAuto ]

\* line 345: { ...state.value, ...timeoutState } in the animation frame
frameState(st, timeoutState) ==
    [ st EXCEPT !.height = timeoutState.height,
                !.overflow = timeoutState.overflow,
                !.shouldUseTransitions = TRUE ]

\* lines 353-357: the state set by the timer of a run that started from 'auto'
classesTimeoutState(st, staticClasses) ==
    [ st EXCEPT !.animationStateClasses = staticClasses,
                !.shouldUseTransitions = FALSE ]

\* lines 376-379: the state set by the timer of every other run
endTimeoutState(st, timeoutState, staticClasses) ==
    [ animationStateClasses |-> staticClasses,
      height |-> timeoutState.height,
      overflow |-> timeoutState.overflow,
      shouldUseTransitions |-> FALSE ]

\* lines 416-441: the inline transition of the wrapper element, when it has one
renderTransition(p, prefersReducedMotion, st) ==
    IF st.shouldUseTransitions /\ p.applyInlineTransitions
    THEN [ set |-> TRUE,
           duration |-> getTimings(p, prefersReducedMotion).duration,
           delay |-> getTimings(p, prefersReducedMotion).delay ]
    ELSE [ set |-> FALSE, duration |-> 0, delay |-> 0 ]

(***************************************************************************)
(* The state of one component instance and of its environment.             *)
(***************************************************************************)
VARIABLES
    phase,          \* "threw", "setup", "mounted" or "unmounted"
    env,            \* prefersReducedMotion, and whether the build keeps `let`
    props,          \* the props the parent passes
    collapsedHeight,            \* line 123
    height,                     \* line 124
    prevHeightProp,             \* line 238
    prevIsExpanded,             \* line 239
    state,                      \* useState(): state.value
    prevState,                  \* useState(): prevState.value
    display,        \* contentElement.value.style.display
    timeoutId,                  \* line 226; 0 when it holds no handle
    animationClassesTimeoutId,  \* line 227; 0 when it holds no handle
    animationFrameIds,          \* line 119
    timers,         \* the pending setTimeout callbacks
    frames,         \* the pending animation-frame callbacks
    nextHandle,     \* the next handle the browser gives out
    events,         \* the events emitted so far, oldest first
    cycle,          \* history: the number of sequencer runs started
    changes,        \* history: the number of times isExpanded changed value
    measured,       \* history: the content height the last run measured
    op,             \* history: the hook or callback that ran last
    twin            \* the closure of the sibling instance: one set up with
                    \* collapsedHeight 0 where this one has "0%" (and the
                    \* other way round) and run through the same hooks,
                    \* callbacks and measurements

vars ==
    << phase, env, props, collapsedHeight, height, prevHeightProp,
       prevIsExpanded, state, prevState, display, timeoutId,
       animationClassesTimeoutId, animationFrameIds, timers, frames,
       nextHandle, events, cycle, changes, measured, op, twin >>

UNDEFINED == [t |-> "undefined", n |-> 0, s |-> <<>>]

\* the placeholder of the state ref of an instance whose setup() threw
NoState ==
    [ animationStateClasses |-> [name \in {} |-> FALSE],
      height |-> UNDEFINED,
      overflow |-> "undefined",
      shouldUseTransitions |-> FALSE ]

Props ==
    { [ collapsedHeight |-> c,
        isExpanded |-> e,
        delay |-> t[1],
        duration |-> t[2],
        applyInlineTransitions |-> TRUE,
        animationStateClasses |-> o ] :
      c \in CollapsedHeights, e \in BOOLEAN, t \in Timings, o \in ClassOverrides }

\* the merged class names of the instance (lines 153-156)
names == animationStateClasses(props.animationStateClasses)

\* the collapsedHeight prop of the sibling
Sibling(value) ==
    IF value = ZERO_PERCENT THEN JsNum(0)
    ELSE IF value = JsNum(0) THEN ZERO_PERCENT
    ELSE value

\* lines 117-239, for the sibling instance
siblingSetup(p, e) ==
    LET value == Sibling(p.collapsedHeight)
        threw == setupThrows(value, e.letIsKept)
        h == IF threw THEN UNDEFINED ELSE parseHeight(value)
        st == IF threw THEN NoState
              ELSE initialState(animationStateClasses(p.animationStateClasses),
                                h, setupOverflow(value))
    IN  [ threw |-> threw, collapsedHeight |-> h, height |-> h,
          prevHeightProp |-> h, prevIsExpanded |-> p.isExpanded,
          state |-> st, prevState |-> st, display |-> "",
          timeoutId |-> 0, animationClassesTimeoutId |-> 0,
          animationFrameIds |-> {}, timers |-> {}, frames |-> {},
          nextHandle |-> 1, events |-> <<>>, cycle |-> 0 ]

\* setup() has run: the closure as lines 117-239 leave it
Init ==
    /\ props \in Props
    /\ env \in [prefersReducedMotion : BOOLEAN, letIsKept : BOOLEAN]
    /\ display = ""
    /\ timeoutId = 0
    /\ animationClassesTimeoutId = 0
    /\ animationFrameIds = {}
    /\ timers = {}
    /\ frames = {}
    /\ nextHandle = 1
    /\ events = <<>>
    /\ cycle = 0
    /\ changes = 0
    /\ measured = 0
    /\ op = "setup"
    /\ prevIsExpanded = props.isExpanded
    /\ twin = siblingSetup(props, env)
    /\ IF setupThrows(props.collapsedHeight, env.letIsKept)
       THEN /\ phase = "threw"
            /\ collapsedHeight = UNDEFINED
            /\ height = UNDEFINED
            /\ prevHeightProp = UNDEFINED
            /\ state = NoState
            /\ prevState = NoState
       ELSE /\ phase = "setup"
            /\ collapsedHeight = parseHeight(props.collapsedHeight)
            /\ height = collapsedHeight
            /\ prevHeightProp = height
            /\ state = initialState(names, height,
                                    setupOverflow(props.collapsedHeight))
            /\ prevState = state

(***************************************************************************)
(* The browser's scheduling primitives.                                    *)
(***************************************************************************)
\* lines 331-336: clearTimeout(timeoutId), clearTimeout(animationClassesTimeoutId)
clearTimeoutsNotClasses(pending, id1, id2) == { t \in pending : t.id # id1 }

clearTimeouts(pending, id1, id2) == { t \in pending : t.id \notin {id1, id2} }

\* lines 398-402: the same two calls in onBeforeUnmount
unmountTimeoutsNotEnd(pending, id1, id2) == { t \in pending : t.id # id2 }

unmountTimeouts(pending, id1, id2) == { t \in pending : t.id \notin {id1, id2} }

\* utils/animation: cancelAnimationFrames(ids)
cancelAnimationFrames(pending, ids) == { f \in pending : f.id \notin ids }

\* utils/animation: startAnimationHelper(callback) requests a frame for the
\* callback and returns the handles of the request
startAnimationHelper(pending, callback) ==
    [ frames |-> pending \cup {callback}, ids |-> {callback.id} ]

emit(log, name, newHeight, c) ==
    Append(log, [name |-> name, newHeight |-> newHeight, cycle |-> c])

(***************************************************************************)
(* The sibling instance: the same code as the hooks below, as functions of  *)
(* the sibling's closure w.                                                 *)
(***************************************************************************)
\* lines 229-236
siblingMounted(w) ==
    [w EXCEPT !.display = hideContent(w.collapsedHeight, w.display)]

\* lines 241-393
siblingUpdated(w, nextProps, contentHeight) ==
    IF w.prevIsExpanded = nextProps.isExpanded THEN w
    ELSE
    LET c == sequencer(animationStateClasses(nextProps.animationStateClasses),
                       w.prevHeightProp, w.height, contentHeight)
        cleared == clearTimeouts(w.timers, w.timeoutId,
                                 w.animationClassesTimeoutId)
        run == w.cycle + 1
        timer(id) == [ id |-> id, ms |-> totalDuration(nextProps),
                       fromAuto |-> c.isCurrentHeightAuto,
                       newHeight |-> c.newHeight,
                       timeoutState |-> c.timeoutState,
                       staticClasses |-> c.timeoutAnimationStateClasses,
                       cycle |-> run ]
        base == [w EXCEPT !.cycle = run,
                          !.prevHeightProp = w.height,
                          !.display = showContent(w.prevState.height,
                                                  w.collapsedHeight, w.display),
                          !.prevState = w.state,
                          !.state = startingState(c)]
    IN  IF c.isCurrentHeightAuto
        THEN LET started ==
                    startAnimationHelper(
                        cancelAnimationFrames(w.frames, w.animationFrameIds),
                        [ id |-> w.nextHandle,
                          timeoutState |-> c.timeoutState,
                          cycle |-> run ])
             IN [base EXCEPT !.frames = started.frames,
                             !.animationFrameIds = started.ids,
                             !.animationClassesTimeoutId = w.nextHandle + 1,
                             !.timers = cleared \cup {timer(w.nextHandle + 1)},
                             !.nextHandle = w.nextHandle + 2]
        ELSE [base EXCEPT !.events = emit(w.events, "animationStart",
                                          c.newHeight, run),
                          !.timeoutId = w.nextHandle,
                          !.timers = cleared \cup {timer(w.nextHandle)},
                          !.nextHandle = w.nextHandle + 1]

\* lines 344-349: the sibling's frame callback of handle id, if it is pending
siblingAnimationFrame(w, id) ==
    IF \A f \in w.frames : f.id # id THEN w
    ELSE
    LET f == CHOOSE g \in w.frames : g.id = id
    IN  [w EXCEPT !.frames = w.frames \ {f},
                  !.prevState = w.state,
                  !.state = frameState(w.state, f.timeoutState),
                  !.events = emit(w.events, "animationStart",
                                  f.timeoutState.height, f.cycle)]

\* lines 352-369 and 375-391: the sibling's timer of handle id, if it is pending
siblingTimeout(w, id) ==
    IF \A t \in w.timers : t.id # id THEN w
    ELSE
    LET t == CHOOSE u \in w.timers : u.id = id
    IN  IF t.fromAuto
        THEN [w EXCEPT !.timers = w.timers \ {t},
                       !.prevState = w.state,
                       !.state = classesTimeoutState(w.state, t.staticClasses),
                       !.display = hideContent(t.timeoutState.height, w.display),
                       !.events = emit(w.events, "animationEnd",
                                       t.timeoutState.height, t.cycle)]
        ELSE [w EXCEPT !.timers = w.timers \ {t},
                       !.prevState = w.state,
                       !.state = endTimeoutState(w.state, t.timeoutState,
                                                 t.staticClasses),
                       !.display = IF w.height # AUTO
                                   THEN hideContent(t.newHeight, w.display)
                                   ELSE w.display,
                       !.events = emit(w.events, "animationEnd",
                                       t.newHeight, t.cycle)]

\* lines 395-405
siblingBeforeUnmount(w) ==
    [w EXCEPT !.frames = cancelAnimationFrames(w.frames, w.animationFrameIds),
              !.timers = unmountTimeouts(w.timers, w.timeoutId,
                                         w.animationClassesTimeoutId),
              !.timeoutId = 0]

(***************************************************************************)
(* The lifecycle hooks.                                                    *)
(***************************************************************************)
\* lines 229-236
onMounted ==
    /\ phase = "setup"
    /\ phase' = "mounted"
    /\ display' = hideContent(collapsedHeight, display)
    /\ op' = "onMounted"
    /\ twin' = siblingMounted(twin)
    /\ UNCHANGED << env, props, collapsedHeight, height, prevHeightProp,
                    prevIsExpanded, state, prevState, timeoutId,
                    animationClassesTimeoutId, animationFrameIds, timers,
                    frames, nextHandle, events, cycle, changes, measured >>

\* lines 241-393, for an update in which the parent passes nextProps and the
\* content element's offsetHeight reads contentHeight
updated(nextProps, contentHeight) ==
    /\ phase = "mounted"
    /\ props' = nextProps
    /\ changes' = IF nextProps.isExpanded # props.isExpanded
                  THEN changes + 1 ELSE changes
    /\ changes' <= MaxChanges
    /\ op' = "onUpdated"
    /\ twin' = siblingUpdated(twin, nextProps, contentHeight)
    /\ IF prevIsExpanded = nextProps.isExpanded
       THEN \* line 245: the early return
            UNCHANGED << phase, env, collapsedHeight, height, prevHeightProp,
                         prevIsExpanded, state, prevState, display, timeoutId,
                         animationClassesTimeoutId, animationFrameIds, timers,
                         frames, nextHandle, events, cycle, measured >>
       ELSE LET prevHeight == prevHeightProp
                shown == showContent(prevState.height, collapsedHeight, display)
                c == sequencer(names, prevHeight, height, contentHeight)
                cleared == clearTimeouts(timers, timeoutId, animationClassesTimeoutId)
                run == cycle + 1
            IN  /\ cycle < MaxCycles
                \* an element that is display:none has offsetHeight 0
                /\ shown = "none" => contentHeight = 0
                /\ cycle' = run
                /\ measured' = contentHeight
                /\ prevHeightProp' = height
                /\ display' = shown
                /\ prevState' = state
                /\ state' = startingState(c)
                /\ IF c.isCurrentHeightAuto
                   THEN LET started ==
                                startAnimationHelper(
                                    cancelAnimationFrames(frames, animationFrameIds),
                                    [ id |-> nextHandle,
                                      timeoutState |-> c.timeoutState,
                                      cycle |-> run, change |-> changes' ])
                        IN  /\ frames' = started.frames
                            /\ animationFrameIds' = started.ids
                            /\ animationClassesTimeoutId' = nextHandle + 1
                            /\ timers' = cleared \cup
                                 {[ id |-> nextHandle + 1,
                                    ms |-> totalDuration(nextProps),
                                    fromAuto |-> TRUE,
                                    newHeight |-> c.newHeight,
                                    timeoutState |-> c.timeoutState,
                                    staticClasses |-> c.timeoutAnimationStateClasses,
                                    cycle |-> run, change |-> changes' ]}
                            /\ nextHandle' = nextHandle + 2
                            /\ UNCHANGED << timeoutId, events >>
                   ELSE /\ events' = emit(events, "animationStart", c.newHeight, run)
                        /\ timeoutId' = nextHandle
                        /\ timers' = cleared \cup
                             {[ id |-> nextHandle,
                                ms |-> totalDuration(nextProps),
                                fromAuto |-> FALSE,
                                newHeight |-> c.newHeight,
                                timeoutState |-> c.timeoutState,
                                staticClasses |-> c.timeoutAnimationStateClasses,
                                cycle |-> run, change |-> changes' ]}
                        /\ nextHandle' = nextHandle + 1
                        /\ UNCHANGED << frames, animationFrameIds,
                                        animationClassesTimeoutId >>
                /\ UNCHANGED << phase, env, collapsedHeight, height, prevIsExpanded >>

\* an update in which the parent passes a value of isExpanded (the same or
\* another) and leaves the other props alone
onUpdated(isExpanded, contentHeight) ==
    updated([props EXCEPT !.isExpanded = isExpanded], contentHeight)

\* the values of collapsedHeight the parent supplies after setup: the invalid
\* ones
SuppliedHeights == { v \in CollapsedHeights : ~validator(v) }

\* an update in which the parent passes another collapsedHeight; setup() has
\* read the prop (line 123) and nothing reads it again
onCollapsedHeightUpdated(value, contentHeight) ==
    /\ value # props.collapsedHeight
    /\ updated([props EXCEPT !.collapsedHeight = value], contentHeight)

\* lines 344-349: the callback of the animation frame runs
animationFrame(f) ==
    /\ f \in frames
    /\ frames' = frames \ {f}
    /\ prevState' = state
    /\ state' = frameState(state, f.timeoutState)
    /\ events' = emit(events, "animationStart", f.timeoutState.height, f.cycle)
    /\ op' = "animationFrame"
    /\ twin' = siblingAnimationFrame(twin, f.id)
    /\ UNCHANGED << phase, env, props, collapsedHeight, height, prevHeightProp,
                    prevIsExpanded, display, timeoutId, animationClassesTimeoutId,
                    animationFrameIds, timers, nextHandle, cycle, changes,
                    measured >>

\* lines 352-369: the timer of a run that started from 'auto' fires
animationClassesTimeout(t) ==
    /\ t \in timers
    /\ t.fromAuto
    /\ timers' = timers \ {t}
    /\ prevState' = state
    /\ state' = classesTimeoutState(state, t.staticClasses)
    /\ display' = hideContent(t.timeoutState.height, display)
    /\ events' = emit(events, "animationEnd", t.timeoutState.height, t.cycle)
    /\ op' = "timeout"
    /\ twin' = siblingTimeout(twin, t.id)
    /\ UNCHANGED << phase, env, props, collapsedHeight, height, prevHeightProp,
                    prevIsExpanded, timeoutId, animationClassesTimeoutId,
                    animationFrameIds, frames, nextHandle, cycle, changes,
                    measured >>

\* lines 375-391: the timer of every other run fires
endTimeout(t) ==
    /\ t \in timers
    /\ ~t.fromAuto
    /\ timers' = timers \ {t}
    /\ prevState' = state
    /\ state' = endTimeoutState(state, t.timeoutState, t.staticClasses)
    /\ display' = IF height # AUTO THEN hideContent(t.newHeight, display)
                  ELSE display
    /\ events' = emit(events, "animationEnd", t.newHeight, t.cycle)
    /\ op' = "timeout"
    /\ twin' = siblingTimeout(twin, t.id)
    /\ UNCHANGED << phase, env, props, collapsedHeight, height, prevHeightProp,
                    prevIsExpanded, timeoutId, animationClassesTimeoutId,
                    animationFrameIds, frames, nextHandle, cycle, changes,
                    measured >>

\* lines 395-405
onBeforeUnmount ==
    /\ phase = "mounted"
    /\ phase' = "unmounted"
    /\ frames' = cancelAnimationFrames(frames, animationFrameIds)
    /\ timers' = unmountTimeouts(timers, timeoutId, animationClassesTimeoutId)
    /\ timeoutId' = 0
    /\ op' = "onBeforeUnmount"
    /\ twin' = siblingBeforeUnmount(twin)
    /\ UNCHANGED << env, props, collapsedHeight, height, prevHeightProp,
                    prevIsExpanded, state, prevState, display,
                    animationClassesTimeoutId, animationFrameIds, nextHandle,
                    events, cycle, changes, measured >>

Next ==
    \/ onMounted
    \/ \E isExpanded \in BOOLEAN, contentHeight \in ContentHeights :
           onUpdated(isExpanded, contentHeight)
    \/ \E f \in frames : animationFrame(f)
    \/ \E t \in timers : animationClassesTimeout(t)
    \/ \E t \in timers : endTimeout(t)
    \/ onBeforeUnmount

Spec == Init /\ [][Next]_vars

\* the component with a parent that also changes collapsedHeight
NextProps ==
    \/ Next
    \/ \E value \in SuppliedHeights, contentHeight \in ContentHeights :
           onCollapsedHeightUpdated(value, contentHeight)

SpecProps == Init /\ [][NextProps]_vars

(***************************************************************************)
(* Properties.                                                             *)
(***************************************************************************)
Last(log) == log[Len(log)]

\* the step emits exactly the one event [name, newHeight], for the current run
EmitsOnly(name, newHeight) ==
    events' = Append(events, [name |-> name, newHeight |-> newHeight,
                              cycle |-> cycle'])

\* the step is a run of the sequencer
StartsCycle == op' = "onUpdated" /\ cycle' = cycle + 1

\* C1: an update in which isExpanded has the value it had at the previous
\* update emits nothing, leaves the animation state alone and neither cancels
\* nor reschedules a pending frame callback or timer.
C1_SameIsExpandedIsNoOp ==
    [][ ( /\ op' = "onUpdated"
          /\ props'.isExpanded = props.isExpanded
          /\ validator(props.collapsedHeight) )
        => UNCHANGED << state, prevState, events, timers, frames, timeoutId,
                        animationClassesTimeoutId, animationFrameIds >> ]_vars

\* C2: when isExpanded changes from false to true with a numeric collapsed
\* height and a measured content height n above it, animationStart is emitted
\* at once with newHeight n, the classes hold the animating-down and
\* to-specific markers, and one completion timer is pending for
\* duration + delay; when it fires animationEnd carries a positive height
\* and the static-specific class is set.
C2_ExpandAnimatesToContentHeight ==
    [][ /\ ( /\ StartsCycle
             /\ ~props.isExpanded
             /\ props'.isExpanded
             /\ props.collapsedHeight.t = "number"
             /\ props.collapsedHeight.n >= 0
             /\ measured' > props.collapsedHeight.n )
           => /\ EmitsOnly("animationStart", JsNum(measured'))
              /\ state'.animationStateClasses[names["animatingDown"]]
              /\ state'.animationStateClasses[names["animatingToHeightSpecific"]]
              /\ \E t \in timers' :
                     timers' = {t} /\ t.ms = props.duration + props.delay
        /\ ( /\ op' = "timeout"
             /\ props.isExpanded
             /\ props.collapsedHeight.t = "number"
             /\ props.collapsedHeight.n >= 0
             /\ measured > props.collapsedHeight.n )
           => /\ EmitsOnly("animationEnd", JsNum(measured))
              /\ state'.animationStateClasses[names["static"]]
              /\ state'.animationStateClasses[names["staticHeightSpecific"]]
      ]_vars

\* C3: whenever isExpanded changes from true to false with collapsedHeight 0,
\* animationStart is emitted with newHeight 0, and when the completion timer
\* fires animationEnd is emitted with newHeight 0 and the content is hidden.
C3_CollapseAnimatesToZero ==
    [][ /\ ( /\ op' = "onUpdated"
             /\ props.isExpanded
             /\ ~props'.isExpanded
             /\ props.collapsedHeight = JsNum(0) )
           => EmitsOnly("animationStart", JsNum(0))
        /\ ( /\ op' = "timeout"
             /\ ~props.isExpanded
             /\ props.collapsedHeight = JsNum(0) )
           => /\ EmitsOnly("animationEnd", JsNum(0))
              /\ display' = "none"
      ]_vars

\* C4: a completion timer that fires belongs to the run started by the latest
\* change of isExpanded: once isExpanded has changed again, the completion of
\* the earlier run never runs.
C4_SupersededCompletionNeverRuns ==
    [][ (op' = "timeout" /\ validator(props.collapsedHeight))
        => \A t \in timers \ timers' : t.change = changes /\ t.cycle = cycle
      ]_vars

\* C5: at most one frame callback and at most one completion timer are
\* pending, and each belongs to the latest run: a run cancels what earlier
\* runs scheduled before it schedules its own.
C5_AtMostOnePending ==
    /\ Cardinality(timers) <= 1
    /\ Cardinality(frames) <= 1
    /\ \A t \in timers : t.cycle = cycle
    /\ \A f \in frames : f.cycle = cycle

\* a second run of a from-auto instance started while the frame callback and
\* the timer of the first were still pending
C5_Witness ==
    /\ cycle = 2
    /\ events = <<>>
    /\ Cardinality(timers) = 1
    /\ Cardinality(frames) = 1

\* C6: after unmount no scheduled callback runs: no state update, no hiding
\* or showing of the content and no event happens, and nothing is pending.
C6_NothingRunsAfterUnmount ==
    [][ phase = "unmounted"
        => /\ UNCHANGED << state, prevState, display, events >>
           /\ timers' = {}
           /\ frames' = {} ]_vars

\* the instance was unmounted while its transition was running
C6_Witness ==
    /\ phase = "unmounted"
    /\ cycle >= 1
    /\ state.shouldUseTransitions
    /\ Len(events) = 1

\* C7: for every valid collapsedHeight the state created by setup() has the
\* parsed height, and overflow "hidden" exactly when the value is not "auto".
C7_InitialState ==
    (op = "setup" /\ validator(props.collapsedHeight))
    => /\ phase = "setup"
       /\ state.height = parseHeight(props.collapsedHeight)
       /\ state.overflow = "hidden" <=> props.collapsedHeight # AUTO

\* C8: a run that starts from "auto" first sets the measured content height
\* with the transition flag false and emits nothing; the flag becomes true,
\* with the height to animate to, only in the frame callback.  Every other run
\* sets the height to animate to and the flag in the one step.
C8_TwoPhaseFromAuto ==
    [][ /\ (StartsCycle /\ prevHeightProp = AUTO)
           => /\ state'.height = JsNum(measured')
              /\ ~state'.shouldUseTransitions
              /\ events' = events
        /\ (StartsCycle /\ prevHeightProp # AUTO)
           => /\ state'.shouldUseTransitions
              /\ Len(events') = Len(events) + 1
              /\ state'.height = Last(events').newHeight
        /\ (~state.shouldUseTransitions /\ state'.shouldUseTransitions)
           => \/ op' = "animationFrame"
              \/ StartsCycle /\ prevHeightProp # AUTO
        /\ op' = "animationFrame"
           => /\ state'.shouldUseTransitions
              /\ Len(events') = Len(events) + 1
              /\ state'.height = Last(events').newHeight
      ]_vars

\* the frame callback of a from-auto run has just enabled the transition,
\* after the run had set the measured height without it
C8_Witness ==
    /\ op = "animationFrame"
    /\ state.shouldUseTransitions
    /\ ~prevState.shouldUseTransitions
    /\ prevState.height = JsNum(measured)
    /\ measured > 0

\* C9: with the reduced-motion preference every completion timer is scheduled
\* after 0 ms, and the transition written into the style has duration 0 and
\* delay 0.
C9_ReducedMotionIsInstant ==
    env.prefersReducedMotion
    => /\ \A t \in timers : t.ms = 0
       /\ renderTransition(props, env.prefersReducedMotion, state).duration = 0
       /\ renderTransition(props, env.prefersReducedMotion, state).delay = 0

\* C10: when the logical height of a run is "auto", the run animates to the
\* measured content height and the completion timer, firing after the frame
\* callback, leaves height "auto" and overflow null; when it is a number or a
\* percentage, that value is the height the completion timer leaves.
C10_FinalHeight ==
    [][ (op' = "timeout" /\ frames = {} /\ validator(props.collapsedHeight))
        => IF height = AUTO
           THEN /\ Last(events').newHeight \in {AUTO, JsNum(measured)}
                /\ state'.height = AUTO
                /\ state'.overflow = "null"
           ELSE state'.height = height
      ]_vars

\* the class name of a key: the user's where the prop gives one, else the
\* default
ClassName(k) ==
    IF k \in DOMAIN props.animationStateClasses
    THEN props.animationStateClasses[k]
    ELSE ANIMATION_STATE_CLASSES[k]

\* the class of key k is set in cls
Marked(cls, k) == ClassName(k) \in DOMAIN cls /\ cls[ClassName(k)]

\* C11: when the completion timer of a run fires, the step sets the content
\* display:none if and only if the final height of the run (the height the run
\* animates to, "auto" for an "auto" target) is exactly 0; the same step makes
\* the class set the static one of the final height's shape (zero, auto, or
\* specific for any other height), sets the transition flag false and emits
\* animationEnd with the final height.
C11_Completion ==
    [][ (op' = "timeout" /\ validator(props.collapsedHeight))
        => LET cls == state'.animationStateClasses
           IN  /\ height = JsNum(0) => display' = "none"
               /\ height # JsNum(0) => display' = display
               /\ Marked(cls, "static")
               /\ ~Marked(cls, "animating")
               /\ Marked(cls, "staticHeightZero") <=> height = JsNum(0)
               /\ Marked(cls, "staticHeightAuto") <=> height = AUTO
               /\ Marked(cls, "staticHeightSpecific")
                  <=> height \notin {JsNum(0), AUTO}
               /\ ~state'.shouldUseTransitions
               /\ EmitsOnly("animationEnd", height)
      ]_vars

\* C12: animationStart is emitted in the step in which the transition flag
\* becomes true; animationEnd is emitted only after the animationStart of its
\* run, whichever of the frame callback and the completion timer runs first,
\* and carries the same newHeight; every newHeight is a number or "auto".
C12_StartBeforeEnd ==
    [][ validator(props.collapsedHeight)
        => /\ (~state.shouldUseTransitions /\ state'.shouldUseTransitions)
              => /\ Len(events') = Len(events) + 1
                 /\ Last(events').name = "animationStart"
           /\ Len(events') > Len(events)
              => LET e == Last(events')
                 IN  /\ e.newHeight.t = "number" \/ e.newHeight = AUTO
                     /\ e.name = "animationStart" => state'.shouldUseTransitions
                     /\ e.name = "animationEnd"
                        => \E j \in 1..Len(events) :
                               /\ events[j].name = "animationStart"
                               /\ events[j].cycle = e.cycle
                               /\ events[j].newHeight = e.newHeight
      ]_vars

\* C13: an instance configured with collapsedHeight "0%" and one configured
\* with collapsedHeight 0, run side by side through the same hooks, callbacks
\* and measurements, have the same state (height, classes, overflow, flag),
\* the same previous state, the same content display and the same events in
\* every state.
C13_ZeroPercentIsZero ==
    props.collapsedHeight \in {ZERO_PERCENT, JsNum(0)}
    => /\ twin.threw <=> phase = "threw"
       /\ twin.state = state
       /\ twin.prevState = prevState
       /\ twin.display = display
       /\ twin.events = events

\* a "0%" instance whose second run has completed and hidden the content again
C13_Witness ==
    /\ props.collapsedHeight = ZERO_PERCENT
    /\ twin.collapsedHeight = JsNum(0)
    /\ cycle = 2
    /\ op = "timeout"
    /\ display = "none"
    /\ Len(events) = 4

\* C14: an update that supplies an invalid collapsedHeight (one the validator
\* rejects) in place of a valid one leaves the rendered height and the parsed collapsed height as
\* they were and emits no animationStart and no animationEnd.
C14_InvalidHeightIgnored ==
    [][ ( /\ op' = "onUpdated"
          /\ validator(props.collapsedHeight)
          /\ props'.collapsedHeight # props.collapsedHeight
          /\ ~validator(props'.collapsedHeight) )
        => /\ collapsedHeight' = collapsedHeight
           /\ state'.height = state.height
           /\ events' = events
      ]_vars

\* the instance exists: setup() returned
Alive == phase \in {"setup", "mounted", "unmounted"}

\* C15: in every animation state overflow is "hidden" when the height is a
\* number, and overflow is "visible" or null only when the height is "auto"
\* and no frame callback of a run from "auto" is pending.
C15_OverflowFollowsHeight ==
    (Alive /\ validator(props.collapsedHeight))
    => /\ state.height.t = "number" => state.overflow = "hidden"
       /\ state.overflow \in {"visible", "null"}
          => (state.height = AUTO /\ frames = {})

\* C16: at the start of a run animating-up is set iff the new height is "auto"
\* or less than the previous one, animating-down iff the previous height was
\* "auto" or the new one is greater, and of to-zero, to-auto and to-specific
\* exactly the one of the final height is set, under the merged class names.
C16_AnimatingClasses ==
    [][ (StartsCycle /\ validator(props.collapsedHeight))
        => LET cls == state'.animationStateClasses
               final == (CHOOSE t \in timers' : t.cycle = cycle').timeoutState.height
           IN  /\ Marked(cls, "animating")
               /\ Marked(cls, "animatingUp")
                  <=> (height = AUTO \/ JsLess(height, prevHeightProp))
               /\ Marked(cls, "animatingDown")
                  <=> (prevHeightProp = AUTO \/ JsGreater(height, prevHeightProp))
               /\ Marked(cls, "animatingToHeightZero") <=> final = JsNum(0)
               /\ Marked(cls, "animatingToHeightAuto") <=> final = AUTO
               /\ Marked(cls, "animatingToHeightSpecific")
                  <=> final \notin {JsNum(0), AUTO}
      ]_vars

\* C17: at the start of every run the content element is not display:none
\* when its height is measured.
C17_ShownBeforeMeasuring ==
    [][ (StartsCycle /\ validator(props.collapsedHeight))
        => display' # "none" ]_vars

\* C18: every run ends: once the callbacks it scheduled have run (none is
\* pending), the last event is the animationEnd of the run and the instance is
\* in the static state of the height the run animated to, transition flag
\* false.
C18_RunEndsSettled ==
    ( /\ phase = "mounted"
      /\ validator(props.collapsedHeight)
      /\ cycle >= 1
      /\ timers = {}
      /\ frames = {} )
    => /\ Last(events) = [ name |-> "animationEnd", newHeight |-> state.height,
                            cycle |-> cycle ]
       /\ ~state.shouldUseTransitions
       /\ Marked(state.animationStateClasses, "static")
       /\ ~Marked(state.animationStateClasses, "animating")

\* C19: a static class set (static marker set, animating marker not) goes
\* with the transition flag false.
C19_StaticMeansNoTransition ==
    ( /\ Alive
      /\ validator(props.collapsedHeight)
      /\ Marked(state.animationStateClasses, "static")
      /\ ~Marked(state.animationStateClasses, "animating") )
    => ~state.shouldUseTransitions

\* C20: every class set names exactly one height shape: a static set exactly
\* one of static-zero, static-specific, static-auto, an animating set exactly
\* one of to-zero, to-specific, to-auto.
C20_ExactlyOneShape ==
    (Alive /\ validator(props.collapsedHeight))
    => LET cls == state.animationStateClasses
       IN  /\ Marked(cls, "static")
              => Cardinality({ k \in { "staticHeightZero", "staticHeightSpecific",
                                       "staticHeightAuto" } : Marked(cls, k) }) = 1
           /\ Marked(cls, "animating")
              => Cardinality({ k \in { "animatingToHeightZero",
                                       "animatingToHeightSpecific",
                                       "animatingToHeightAuto" } :
                               Marked(cls, k) }) = 1

====
